---- MODULE Spec2Model ----
(***************************************************************************)
(* Spiralis: an ASCII spiral galaxy (src/main.cpp).                        *)
(*                                                                         *)
(* Real numbers (double) are fixed-point integers in thousandths: the      *)
(* value v stands for v / SCALE.  Angles are milliradians, lengths are     *)
(* thousandths of a character cell, wall-clock time is milliseconds.       *)
(* static_cast<int> truncates toward zero (Trunc); it is not the floor.    *)
(***************************************************************************)
EXTENDS Integers, Sequences, FiniteSets

\* ------------------------------------------------------------------ bounds
\* Seeds of the generator: 0..MaxSeed.
MaxSeed == 3
\* The driver loop is cut after MaxFrames frames.
MaxFrames == 4
\* The hand-made galaxies of SpecRender hold at most MaxParticles
\* particles and MaxStars stars.
MaxParticles == 2
MaxStars == 1

\* --------------------------------------------------------------- constants
SCALE == 1000
PI == 3142
TWO_PI == 2 * PI
GRADIENT == <<" ", ".", ":", "-", "=", "+", "*", "#", "%", "@">>
num_arms == 2
particles_per_arm == 150
core_particles == 60
num_stars == 80
dt == 100
frame_duration == 50

\* ---------------------------------------------------------- double arithmetic
\* a * b on doubles.
FMul(a, b) ==
    LET p == a * b
    IN IF p >= 0 THEN p \div SCALE ELSE -((-p) \div SCALE)

\* a / b on doubles, for a >= 0 and b > 0.
FDiv(a, b) == (a * SCALE) \div b

\* static_cast<int>(v): truncation toward zero.
Trunc(v) == IF v >= 0 THEN v \div SCALE ELSE -((-v) \div SCALE)

RECURSIVE SqrtIter(_, _, _)
SqrtIter(n, lo, hi) ==
    IF lo >= hi THEN lo
    ELSE LET mid == (lo + hi + 1) \div 2
         IN IF mid * mid <= n THEN SqrtIter(n, mid, hi)
                              ELSE SqrtIter(n, lo, mid - 1)

\* sqrt(v) for v >= 0: sqrt(v / SCALE) * SCALE = sqrt(v * SCALE).
FSqrt(v) == SqrtIter(v * SCALE, 0, 8000)

\* sin on [0, PI] (Bhaskara's rational approximation, within 0.002).
SinHalf(x) ==
    LET p == x * (PI - x)
    IN (16 * p) \div ((5 * PI * PI - 4 * p) \div SCALE)

\* sin(a) and cos(a) for every angle, periodic in TWO_PI.
Sin(a) ==
    LET m == a % TWO_PI
    IN IF m <= PI THEN SinHalf(m) ELSE -SinHalf(m - PI)

Cos(a) == Sin(a + PI \div 2)

\* std::clamp(v, lo, hi).
clamp(v, lo, hi) == IF v < lo THEN lo ELSE IF hi < v THEN hi ELSE v

min(a, b) == IF b < a THEN b ELSE a

\* ------------------------------------------------------------------- rng
\* mt19937 is abstracted as a linear congruential generator over
\* 0..RngMod-1; its seed (42 in the source) ranges over 0..MaxSeed.
RngMod == 16384
RngA == 1229
RngC == 1013

rng_next(s) == (RngA * s + RngC) % RngMod

\* The generator's first n outputs (n >= 1) from state s, in the order
\* drawn.  The draws are split in halves to bound the depth of the
\* evaluation: the second half starts from the first half's last state.
RECURSIVE RngDraws(_, _)
RngDraws(s, n) ==
    IF n = 1 THEN <<rng_next(s)>>
    ELSE LET first == RngDraws(s, n \div 2)
         IN first \o RngDraws(first[Len(first)], n - n \div 2)

\* random_double(min_val, max_val) as draw number n (from 0) of the
\* sequence draws: uniform in [min_val, max_val).
random_double(draws, n, min_val, max_val) ==
    min_val + ((max_val - min_val) * draws[n + 1]) \div RngMod

\* ----------------------------------------------------------------- state
VARIABLES
    particles_,     \* vector<Particle>
    stars_,         \* vector<Star>
    center_,        \* Vec2
    width_,
    height_,
    time_,
    aspect_ratio_,
    pc,             \* the driver's position: "render" or "update"
    clock,          \* steady_clock::now() - start_time, in milliseconds
    cout,           \* buffer.str() of the last output call: the frame's text, as a
                    \* sequence of characters (move_cursor_home's control sequence
                    \* before it is the terminal's, not the frame's)
    nframes,        \* number of render calls made (history)
    nupdates        \* number of update calls made (history)

vars == <<particles_, stars_, center_, width_, height_, time_, aspect_ratio_,
          pc, clock, cout, nframes, nupdates>>

Vec2(x_, y_) == [x |-> x_, y |-> y_]

\* Particle(r, a, av, b); pos is default-constructed.
Particle(r, a, av, b) ==
    [pos |-> Vec2(0, 0), angle |-> a, radius |-> r,
     angular_velocity |-> av, brightness |-> b]

\* ------------------------------------------------------------ construction
NArm == num_arms * particles_per_arm

\* The k-th particle of init_spiral_arms (arm-major order), k in 0..NArm-1.
ArmParticle(draws, k) ==
    LET arm == k \div particles_per_arm
        i == k % particles_per_arm
        arm_offset == arm * PI
        t == (i * SCALE) \div particles_per_arm
        base_radius == 2000 + FMul(t, 14000)
        spiral_angle == arm_offset + FMul(FMul(t, 2500), PI)
        radius_variation ==
            FMul(random_double(draws, 2 * k, -1000, 1000), 500 + FMul(t, 1500))
        angle_variation == random_double(draws, 2 * k + 1, -200, 200)
        radius == base_radius + radius_variation
        angle == spiral_angle + angle_variation
        angular_velocity == FDiv(150, FSqrt(radius))
        brightness == 300 + FMul(700, 1000 - FMul(t, 600))
    IN Particle(radius, angle, angular_velocity, brightness)

init_spiral_arms(draws) == [k \in 1..NArm |-> ArmParticle(draws, k - 1)]

\* A mutant of CoreParticle: the brightness is drawn from [0.8, 1.2).
CoreParticle_bright(draws, j) ==
    LET n == 2 * NArm + 3 * j
        radius == random_double(draws, n, 500, 3000)
        angle == random_double(draws, n + 1, 0, TWO_PI)
        angular_velocity == FDiv(300, FSqrt(radius + 500))
        brightness == 800 + random_double(draws, n + 2, 0, 400)
    IN Particle(radius, angle, angular_velocity, brightness)

\* The j-th particle of init_core, j in 0..core_particles-1.
CoreParticle(draws, j) ==
    LET n == 2 * NArm + 3 * j
        radius == random_double(draws, n, 500, 3000)
        angle == random_double(draws, n + 1, 0, TWO_PI)
        angular_velocity == FDiv(300, FSqrt(radius + 500))
        brightness == 800 + random_double(draws, n + 2, 0, 200)
    IN Particle(radius, angle, angular_velocity, brightness)

init_core(draws) == [j \in 1..core_particles |-> CoreParticle(draws, j - 1)]

\* The j-th star of init_background_stars.
BackgroundStar(draws, j, w, h) ==
    LET n == 2 * NArm + 3 * core_particles + 5 * j
    IN [pos |-> Vec2(random_double(draws, n, 0, w * SCALE),
                     random_double(draws, n + 1, 0, h * SCALE)),
        phase |-> random_double(draws, n + 2, 0, TWO_PI),
        speed |-> random_double(draws, n + 3, 500, 2000),
        base_brightness |-> random_double(draws, n + 4, 300, 1000)]

init_background_stars(draws, w, h) ==
    [j \in 1..num_stars |-> BackgroundStar(draws, j - 1, w, h)]

\* The number of random_double calls of a construction.
NDraws == 2 * NArm + 3 * core_particles + 5 * num_stars

\* get_terminal_size: 120 x 40 off Windows, the console window on Windows.
TermSizes == {<<120, 40>>, <<40, 15>>, <<16, 11>>, <<3, 4>>, <<2, 4>>, <<1, 4>>}

\* Galaxy(w, h).
Galaxy(w, h, seed) ==
    /\ width_ = w
    /\ height_ = h
    /\ time_ = 0
    /\ center_ = Vec2((w * SCALE) \div 2, (h * SCALE) \div 2)
    /\ aspect_ratio_ = 2000
    /\ LET draws == RngDraws(seed, NDraws)
       IN /\ particles_ = init_spiral_arms(draws) \o init_core(draws)
          /\ stars_ = init_background_stars(draws, w, h)

\* main() up to the loop.
Init ==
    /\ \E ts \in TermSizes, seed \in 0..MaxSeed :
          Galaxy(min(ts[1], 120), min(ts[2] - 3, 35), seed)
    /\ pc = "render"
    /\ clock = 0
    /\ cout = <<>>
    /\ nframes = 0
    /\ nupdates = 0

\* ---------------------------------------------------------------- update
\* A mutant of Particle_update: the particle also spirals inwards.
Particle_update_inwards(p) ==
    LET a1 == p.angle + FMul(p.angular_velocity, dt)
        a2 == IF a1 > TWO_PI THEN a1 - TWO_PI ELSE a1
        a3 == IF a2 < 0 THEN a2 + TWO_PI ELSE a2
    IN [p EXCEPT !.angle = a3, !.radius = FMul(@, 999)]

\* Particle::update(dt).
Particle_update(p) ==
    LET a1 == p.angle + FMul(p.angular_velocity, dt)
        a2 == IF a1 > TWO_PI THEN a1 - TWO_PI ELSE a1
        a3 == IF a2 < 0 THEN a2 + TWO_PI ELSE a2
    IN [p EXCEPT !.angle = a3]

\* Star::update(dt).
Star_update(s) ==
    LET p1 == s.phase + FMul(s.speed, dt)
        p2 == IF p1 > TWO_PI THEN p1 - TWO_PI ELSE p1
    IN [s EXCEPT !.phase = p2]

\* A mutant of Galaxy_update: the time is set, not accumulated.
Galaxy_update_time ==
    /\ time_' = dt
    /\ particles_' = [k \in 1..Len(particles_) |-> Particle_update(particles_[k])]
    /\ stars_' = [k \in 1..Len(stars_) |-> Star_update(stars_[k])]
    /\ UNCHANGED <<center_, width_, height_, aspect_ratio_>>

\* Galaxy::update(dt).
Galaxy_update ==
    /\ time_' = time_ + dt
    /\ particles_' = [k \in 1..Len(particles_) |-> Particle_update(particles_[k])]
    /\ stars_' = [k \in 1..Len(stars_) |-> Star_update(stars_[k])]
    /\ UNCHANGED <<center_, width_, height_, aspect_ratio_>>

\* ---------------------------------------------------------------- render
\* Particle::get_position(center, aspect).
get_position(p, center, aspect) ==
    Vec2(center.x + FMul(FMul(p.radius, Cos(p.angle)), aspect),
         center.y + FMul(p.radius, Sin(p.angle)))

\* Star::get_brightness().
get_brightness(s) ==
    FMul(s.base_brightness, 300 + FMul(700, 500 + FMul(500, Sin(s.phase))))

\* A mutant of BlankScreen: the screen is filled with '.'.
BlankScreen_dotted(w, h) == [y \in 1..h |-> [x \in 1..w |-> "."]]

\* vector<string> screen(height_, string(width_, ' ')).
BlankScreen(w, h) == [y \in 1..h |-> [x \in 1..w |-> " "]]

\* vector<vector<double>> intensity(height_, vector<double>(width_, 0)).
ZeroIntensity(w, h) == [y \in 1..h |-> [x \in 1..w |-> 0]]

\* The body of render_stars' loop for one star.
DrawStar(screen, s, w, h) ==
    LET sx == Trunc(s.pos.x)
        sy == Trunc(s.pos.y)
        b == get_brightness(s)
    IN IF sx >= 0 /\ sx < w /\ sy >= 0 /\ sy < h
       THEN IF b > 700 THEN [screen EXCEPT ![sy + 1][sx + 1] = "*"]
            ELSE IF b > 400 THEN [screen EXCEPT ![sy + 1][sx + 1] = "+"]
            ELSE IF b > 200 THEN [screen EXCEPT ![sy + 1][sx + 1] = "."]
            ELSE screen
       ELSE screen

\* render_stars(screen): the loop over the stars lo..hi, in order.  The
\* range is split in halves to bound the depth of the evaluation: the
\* second half runs on the screen the first half leaves (the one element
\* of the set below, r the result).
RECURSIVE render_stars(_, _, _, _, _, _)
render_stars(screen, stars, lo, hi, w, h) ==
    IF lo > hi THEN screen
    ELSE IF lo = hi THEN DrawStar(screen, stars[lo], w, h)
    ELSE LET mid == (lo + hi) \div 2
         IN CHOOSE r \in {render_stars(first, stars, mid + 1, hi, w, h) :
                             first \in {render_stars(screen, stars, lo, mid, w, h)}} :
                  TRUE

\* The body of accumulate_particles' loop for one particle.
AddParticle(intensity, p, center, aspect, w, h) ==
    LET pos == get_position(p, center, aspect)
        px == Trunc(pos.x)
        py == Trunc(pos.y)
    IN IF px >= 0 /\ px < w /\ py >= 0 /\ py < h
       THEN [intensity EXCEPT ![py + 1][px + 1] = @ + p.brightness]
       ELSE intensity

\* accumulate_particles(intensity): the loop over the particles lo..hi, in
\* order, split in halves like render_stars.
RECURSIVE accumulate_particles(_, _, _, _, _, _, _, _)
accumulate_particles(intensity, particles, lo, hi, center, aspect, w, h) ==
    IF lo > hi THEN intensity
    ELSE IF lo = hi THEN AddParticle(intensity, particles[lo], center, aspect, w, h)
    ELSE LET mid == (lo + hi) \div 2
         IN CHOOSE r \in {accumulate_particles(first, particles, mid + 1, hi,
                                                center, aspect, w, h) :
                             first \in {accumulate_particles(intensity, particles, lo, mid,
                                                              center, aspect, w, h)}} :
                  TRUE

\* A mutant of IntensityGlyph: the intensity is not scaled by 3.
IntensityGlyph_unscaled(v) ==
    LET idx == Trunc(v)
    IN GRADIENT[clamp(idx, 0, Len(GRADIENT) - 1) + 1]

\* A mutant of IntensityGlyph: the index is rounded to nearest.
IntensityGlyph_rounding(v) ==
    LET idx == (FMul(v, 3000) + 500) \div SCALE
    IN GRADIENT[clamp(idx, 0, Len(GRADIENT) - 1) + 1]

\* The glyph apply_intensity gives a cell whose intensity is above 0.1.
IntensityGlyph(v) ==
    LET idx == Trunc(FMul(v, 3000))
    IN GRADIENT[clamp(idx, 0, Len(GRADIENT) - 1) + 1]

\* apply_intensity(screen, intensity).
apply_intensity(screen, intensity, w, h) ==
    [y \in 1..h |-> [x \in 1..w |->
        IF intensity[y][x] > 100 THEN IntensityGlyph(intensity[y][x])
                                 ELSE screen[y][x]]]

\* A mutant of render_core: the brackets are swapped.
render_core_swapped(screen, center, w, h) ==
    LET cx == Trunc(center.x)
        cy == Trunc(center.y)
    IN IF cx > 0 /\ cx < w - 1 /\ cy >= 0 /\ cy < h
       THEN [screen EXCEPT ![cy + 1][cx + 1] = "@",
                           ![cy + 1][cx] = ")",
                           ![cy + 1][cx + 2] = "("]
       ELSE screen

\* render_core(screen).
render_core(screen, center, w, h) ==
    LET cx == Trunc(center.x)
        cy == Trunc(center.y)
    IN IF cx > 0 /\ cx < w - 1 /\ cy >= 0 /\ cy < h
       THEN [screen EXCEPT ![cy + 1][cx + 1] = "@",
                           ![cy + 1][cx] = "(",
                           ![cy + 1][cx + 2] = ")"]
       ELSE screen

\* operator<<(int) for n >= 0: the decimal digits.
DigitChars == <<"0", "1", "2", "3", "4", "5", "6", "7", "8", "9">>

RECURSIVE IntToChars(_)
IntToChars(n) ==
    IF n < 10 THEN <<DigitChars[n + 1]>>
    ELSE Append(IntToChars(n \div 10), DigitChars[(n % 10) + 1])

\* buffer << line << '\n' for the lines from line k on.
RECURSIVE WriteLines(_, _)
WriteLines(screen, k) ==
    IF k > Len(screen) THEN <<>>
    ELSE screen[k] \o <<"\n">> \o WriteLines(screen, k + 1)

\* A mutant of output: the blank line before the status line is missing.
output_noblank(screen, real_elapsed_sec) ==
    WriteLines(screen, 1)
        \o <<" ", "T", "i", "m", "e", ":", " ">>
        \o IntToChars(Trunc(real_elapsed_sec))
        \o <<"s">>

\* output(screen, real_elapsed_sec): the text written to cout.
output(screen, real_elapsed_sec) ==
    WriteLines(screen, 1)
        \o <<"\n", " ", "T", "i", "m", "e", ":", " ">>
        \o IntToChars(Trunc(real_elapsed_sec))
        \o <<"s">>

\* The screen of Galaxy::render after its four passes.
RenderedScreen(particles, stars, center, aspect, w, h) ==
    LET screen == render_stars(BlankScreen(w, h), stars, 1, Len(stars), w, h)
        intensity == accumulate_particles(ZeroIntensity(w, h), particles,
                                          1, Len(particles), center, aspect, w, h)
    IN render_core(apply_intensity(screen, intensity, w, h), center, w, h)

\* Galaxy::render(real_elapsed_sec): const, it writes to cout only.
Galaxy_render(real_elapsed_sec) ==
    /\ \E screen \in {RenderedScreen(particles_, stars_, center_, aspect_ratio_,
                                      width_, height_)} :
          cout' = output(screen, real_elapsed_sec)
    /\ UNCHANGED <<particles_, stars_, center_, width_, height_, time_, aspect_ratio_>>

\* ------------------------------------------------------------ driver loop
\* What a frame takes beyond sleep_for(frame_duration), in milliseconds.
Overheads == {0, 1000}

\* while (true): galaxy.render(real_elapsed).
Render ==
    /\ pc = "render"
    /\ nframes < MaxFrames
    /\ Galaxy_render(clock)
    /\ nframes' = nframes + 1
    /\ pc' = "update"
    /\ UNCHANGED <<clock, nupdates>>

\* galaxy.update(dt); this_thread::sleep_for(frame_duration).
Update ==
    /\ pc = "update"
    /\ Galaxy_update
    /\ \E o \in Overheads : clock' = clock + frame_duration + o
    /\ nupdates' = nupdates + 1
    /\ pc' = "render"
    /\ UNCHANGED <<cout, nframes>>

Next == Render \/ Update

Spec == Init /\ [][Next]_vars

\* The control of the loop advancing: a render call returning, and an
\* update call and sleep_for returning.  Under Spec these are exactly the
\* steps of Next (every step of Next moves pc, and render and update are
\* total), and the step is enabled exactly when Next is.
Step ==
    \/ pc = "render" /\ nframes < MaxFrames /\ pc' = "update"
    \/ pc = "update" /\ pc' = "render"

\* The fairness of the loop: nothing blocks in it, sleep_for returns.
FairSpec == Spec /\ WF_pc(Step)

\* ------------------------------------------------ render on any galaxy
\* Galaxy objects as render and update may be handed them: a grid, and
\* any particles and stars, not only those the constructor makes.
RenderSizes == {<<10, 6>>, <<3, 1>>, <<12, 7>>}

SampleParticles ==
    {Particle(0, 0, 300, 900), Particle(3000, 3142, 86, 400)}

SampleStars ==
    {[pos |-> Vec2(1500, 2500), phase |-> 1571, speed |-> 1000,
      base_brightness |-> 1000],
     [pos |-> Vec2(5500, 3500), phase |-> 4712, speed |-> 2000,
      base_brightness |-> 300]}

\* The sequences over S of length at most n.
SeqsUpTo(S, n) == UNION {[1..k -> S] : k \in 0..n}

InitRender ==
    /\ \E sz \in RenderSizes :
          /\ width_ = sz[1]
          /\ height_ = sz[2]
          /\ center_ = Vec2((sz[1] * SCALE) \div 2, (sz[2] * SCALE) \div 2)
    /\ time_ = 0
    /\ aspect_ratio_ = 2000
    /\ particles_ \in SeqsUpTo(SampleParticles, MaxParticles)
    /\ stars_ \in SeqsUpTo(SampleStars, MaxStars)
    /\ pc = "render"
    /\ clock = 0
    /\ cout = <<>>
    /\ nframes = 0
    /\ nupdates = 0

SpecRender == InitRender /\ [][Next]_vars

\* ------------------------------------------------- reading a frame back
\* The positions of the line breaks of the text on cout.
Breaks == {i \in 1..Len(cout) : cout[i] = "\n"}

\* The text on cout split at its line breaks: its lines, in order.
FrameLines ==
    LET nl == Breaks
        n == Cardinality(nl)
        at == [k \in 0..(n + 1) |->
                 IF k = 0 THEN 0
                 ELSE IF k = n + 1 THEN Len(cout) + 1
                 ELSE CHOOSE i \in nl : Cardinality({j \in nl : j <= i}) = k]
    IN [k \in 1..(n + 1) |-> SubSeq(cout, at[k - 1] + 1, at[k] - 1)]

\* floor(v) of a double.
Floor(v) == v \div SCALE

\* A frame is on cout and shows the current simulation state.
Rendered == pc = "update" /\ nframes > 0

\* The intensity grid render accumulates in the current state.
CodeIntensity ==
    accumulate_particles(ZeroIntensity(width_, height_), particles_, 1, Len(particles_),
                         center_, aspect_ratio_, width_, height_)

\* The screen after render's star pass in the current state.
StarPass == render_stars(BlankScreen(width_, height_), stars_, 1, Len(stars_),
                         width_, height_)

\* round(v) to the nearest integer, for v >= 0.
Round(v) == (v + SCALE \div 2) \div SCALE

\* The cell (row y, column x, from 1) is the center cell or beside it.
CoreCell(y, x) ==
    /\ y = height_ \div 2 + 1
    /\ x \in {width_ \div 2, width_ \div 2 + 1, width_ \div 2 + 2}

\* ------------------------------------------------------------------- C1
\* C1: after one or more updates every particle's angle and every star's
\* phase lie in [0, 2*pi): never negative, never 2*pi or more.
C1_Wrapped ==
    nupdates >= 1 =>
        /\ \A k \in 1..Len(particles_) :
              particles_[k].angle >= 0 /\ particles_[k].angle < TWO_PI
        /\ \A k \in 1..Len(stars_) :
              stars_[k].phase >= 0 /\ stars_[k].phase < TWO_PI

\* ------------------------------------------------------------------- C2
\* The frame cell (y, x) holds the ramp glyph of index idx.
RampGlyphAt(L, y, x, idx) == L[y][x] = GRADIENT[clamp(idx, 0, 9) + 1]

\* C2 as claimed: every cell of intensity above 0.1 holds the ramp glyph
\* of index clamp(round(intensity * 3), 0, 9), rounding to nearest; the
\* other cells are as the star pass wrote them.
C2_Rounded ==
    Rendered =>
        LET L == FrameLines
            in == CodeIntensity
            st == StarPass
        IN \A y \in 1..height_ : \A x \in 1..width_ :
              CoreCell(y, x) \/
                 IF in[y][x] > 100 THEN RampGlyphAt(L, y, x, Round(3 * in[y][x]))
                                   ELSE L[y][x] = st[y][x]

\* C2 amended: the index is intensity * 3 truncated, clamped to 0..9.
C2_Truncated ==
    Rendered =>
        LET L == FrameLines
            in == CodeIntensity
            st == StarPass
        IN \A y \in 1..height_ : \A x \in 1..width_ :
              CoreCell(y, x) \/
                 IF in[y][x] > 100 THEN RampGlyphAt(L, y, x, Floor(3 * in[y][x]))
                                   ELSE L[y][x] = st[y][x]

\* A frame with a lit cell where rounding and truncating differ, a lit
\* cell above the ramp's end, and an unlit cell showing a star.
C2_Witness ==
    /\ Rendered
    /\ LET in == CodeIntensity
           st == StarPass
       IN /\ \E y \in 1..height_ : \E x \in 1..width_ :
                /\ ~CoreCell(y, x)
                /\ in[y][x] > 100
                /\ Round(3 * in[y][x]) # Floor(3 * in[y][x])
          /\ \E y \in 1..height_ : \E x \in 1..width_ :
                ~CoreCell(y, x) /\ Floor(3 * in[y][x]) > 9
          /\ \E y \in 1..height_ : \E x \in 1..width_ :
                ~CoreCell(y, x) /\ in[y][x] <= 100 /\ st[y][x] # " "

\* ------------------------------------------------------------------- C3
\* The frame row of the center and the column of the center (from 0).
CenterRow == height_ \div 2
CenterCol == width_ \div 2

\* C3 as claimed: for every grid the center cell holds '@', and the cell
\* left / right of it holds '(' / ')' whenever that column is in the grid,
\* each of the three drawn independently of the others.
C3_Independent ==
    Rendered =>
        LET L == FrameLines
        IN /\ L[CenterRow + 1][CenterCol + 1] = "@"
           /\ CenterCol - 1 >= 0 => L[CenterRow + 1][CenterCol] = "("
           /\ CenterCol + 1 < width_ => L[CenterRow + 1][CenterCol + 2] = ")"

\* C3 amended: the three cells are drawn together or not at all.  With
\* width >= 3 they hold '(', '@', ')' whatever was there; with width 1 or 2
\* the core pass draws nothing and the frame is the intensity pass's.
C3_AllOrNothing ==
    Rendered =>
        LET L == FrameLines
        IN IF width_ >= 3
           THEN /\ L[CenterRow + 1][CenterCol] = "("
                /\ L[CenterRow + 1][CenterCol + 1] = "@"
                /\ L[CenterRow + 1][CenterCol + 2] = ")"
           ELSE \A y \in 1..height_ :
                   L[y] = apply_intensity(StarPass, CodeIntensity, width_, height_)[y]

\* A frame of a grid at least 3 wide where particles light all three
\* center cells, so that the core pass overwrites particle glyphs.
C3_Witness ==
    /\ Rendered
    /\ width_ >= 3
    /\ \A x \in {CenterCol, CenterCol + 1, CenterCol + 2} :
          CodeIntensity[CenterRow + 1][x] > 100

\* ------------------------------------------------------------------- C4
\* The cell (row, column, from 0) a position belongs to by floor, or
\* <<-1, -1>> when that cell is outside the grid.
FloorCell(pos) ==
    IF /\ Floor(pos.x) >= 0 /\ Floor(pos.x) < width_
       /\ Floor(pos.y) >= 0 /\ Floor(pos.y) < height_
    THEN <<Floor(pos.y), Floor(pos.x)>>
    ELSE <<-1, -1>>

\* The sum of the brightness of the particles of the set ks of indices.
RECURSIVE SumBrightness(_)
SumBrightness(ks) ==
    IF ks = {} THEN 0
    ELSE LET k == CHOOSE i \in ks : TRUE
         IN particles_[k].brightness + SumBrightness(ks \ {k})

\* C4 as claimed: a particle adds its brightness to the cell
\* (floor(y), floor(x)) of its projection if that cell is in the grid and
\* to no cell otherwise (a projection with x or y in (-1, 0) included); a
\* star in the grid is drawn at the cell (floor(y), floor(x)).
C4_FloorCell ==
    LET cell == [k \in 1..Len(particles_) |->
                   FloorCell(get_position(particles_[k], center_, aspect_ratio_))]
        in == CodeIntensity
        st == StarPass
    IN /\ \A y \in 1..height_ : \A x \in 1..width_ :
             in[y][x] = SumBrightness({k \in 1..Len(particles_) :
                                         cell[k] = <<y - 1, x - 1>>})
       /\ \A k \in 1..Len(stars_) :
             LET c == FloorCell(stars_[k].pos)
             IN (c # <<-1, -1>> /\ get_brightness(stars_[k]) > 700)
                   => st[c[1] + 1][c[2] + 1] \in {"*", "+", "."}

\* ------------------------------------------------------------------- C5
Glyphs == {" ", ".", ":", "-", "=", "+", "*", "#", "%", "@", "(", ")"}

\* The line is " Time: <integer>s".
IsFooter(line) ==
    /\ Len(line) >= 9
    /\ SubSeq(line, 1, 7) = <<" ", "T", "i", "m", "e", ":", " ">>
    /\ line[Len(line)] = "s"
    /\ \A i \in 8..(Len(line) - 1) :
          \E d \in 1..10 : line[i] = DigitChars[d]

\* C5: every frame is height lines of width glyphs each, then a blank
\* line, then the line " Time: <integer>s".
C5_FrameFormat ==
    nframes > 0 =>
        LET L == FrameLines
        IN /\ Len(L) = height_ + 2
           /\ \A y \in 1..height_ :
                 /\ Len(L[y]) = width_
                 /\ \A x \in 1..width_ : L[y][x] \in Glyphs
           /\ L[height_ + 1] = <<>>
           /\ IsFooter(L[height_ + 2])

\* A frame written after a second of wall-clock time, showing stars,
\* particles and the core.
C5_Witness ==
    /\ nframes > 0
    /\ clock >= 1000
    /\ LET L == FrameLines
       IN /\ \E y \in 1..height_ : \E x \in 1..width_ : L[y][x] = "@"
          /\ \E y \in 1..height_ : \E x \in 1..width_ : L[y][x] = "*"
          /\ \E y \in 1..height_ : \E x \in 1..width_ : L[y][x] = "-"

\* ------------------------------------------------------------------- C6
\* C6 as claimed: a 10-wide, 6-high grid with no particle and no star
\* renders as 6 lines of 10 spaces each, then the status footer.
C6_AllSpaces ==
    (Rendered /\ width_ = 10 /\ height_ = 6 /\ particles_ = <<>> /\ stars_ = <<>>) =>
        LET L == FrameLines
        IN /\ Len(L) = 8
           /\ \A y \in 1..6 : L[y] = [x \in 1..10 |-> " "]
           /\ L[7] = <<>>
           /\ IsFooter(L[8])

\* C6 amended: the 6 lines of 10 characters are spaces but for the core,
\* "(@)" in columns 4 to 6 of row 3 (from 0); then the status footer.
C6_WithCore ==
    (Rendered /\ width_ = 10 /\ height_ = 6 /\ particles_ = <<>> /\ stars_ = <<>>) =>
        LET L == FrameLines
        IN /\ Len(L) = 8
           /\ \A y \in {1, 2, 3, 5, 6} : L[y] = [x \in 1..10 |-> " "]
           /\ L[4] = <<" ", " ", " ", " ", "(", "@", ")", " ", " ", " ">>
           /\ L[7] = <<>>
           /\ IsFooter(L[8])

\* The empty 10 x 6 galaxy has been rendered, a second or more after the
\* start.
C6_Witness ==
    /\ Rendered /\ width_ = 10 /\ height_ = 6
    /\ particles_ = <<>> /\ stars_ = <<>>
    /\ clock >= 1000

\* ------------------------------------------------------------------- C7
\* C7 as claimed: before any update every particle has radius >= 0, angle
\* in [0, 2*pi) and brightness in [0, 1].
C7_DataModel ==
    nupdates = 0 =>
        \A k \in 1..Len(particles_) :
            /\ particles_[k].radius >= 0
            /\ particles_[k].angle >= 0 /\ particles_[k].angle < TWO_PI
            /\ particles_[k].brightness >= 0 /\ particles_[k].brightness <= SCALE

\* C7 amended: before any update every particle has radius >= 0 and
\* brightness in [0, 1]; a core particle's angle is in [0, 2*pi), a
\* spiral-arm particle's angle is in [-0.2, 3.5*pi + 0.2).
C7_Constructed ==
    nupdates = 0 =>
        \A k \in 1..Len(particles_) :
            /\ particles_[k].radius >= 0
            /\ particles_[k].brightness >= 0 /\ particles_[k].brightness <= SCALE
            /\ k > NArm =>
                  particles_[k].angle >= 0 /\ particles_[k].angle < TWO_PI
            /\ k <= NArm =>
                  /\ particles_[k].angle >= -200
                  /\ particles_[k].angle < PI + FMul(2500, PI) + 200

\* A construction with a spiral-arm angle below 0 and one of 2*pi or more.
C7_Witness ==
    /\ nupdates = 0
    /\ \E k \in 1..NArm : particles_[k].angle < 0
    /\ \E k \in 1..NArm : particles_[k].angle >= TWO_PI

\* ------------------------------------------------------------------- C8
\* What update leaves alone in a particle, and in a star.
SameParticle(p, q) ==
    /\ q.radius = p.radius
    /\ q.angular_velocity = p.angular_velocity
    /\ q.brightness = p.brightness
    /\ q.pos = p.pos

SameStar(a, b) ==
    /\ b.pos = a.pos
    /\ b.speed = a.speed
    /\ b.base_brightness = a.base_brightness

\* C8: the populations keep their sizes; update adds dt to the time and
\* changes only angles and phases; render changes no simulation state.
C8_FrameEffect ==
    [][ /\ Len(particles_) = num_arms * particles_per_arm + core_particles
        /\ Len(stars_) = num_stars
        /\ Len(particles_') = Len(particles_)
        /\ Len(stars_') = Len(stars_)
        /\ <<center_, width_, height_, aspect_ratio_>>' =
              <<center_, width_, height_, aspect_ratio_>>
        /\ pc = "update" =>
              /\ time_' = time_ + dt
              /\ \A k \in 1..Len(particles_) :
                    SameParticle(particles_[k], particles_'[k])
              /\ \A k \in 1..Len(stars_) : SameStar(stars_[k], stars_'[k])
        /\ pc = "render" =>
              <<particles_, stars_, time_>>' = <<particles_, stars_, time_>>
      ]_vars

\* Updates and renders have run, and an update moved every particle and
\* every star.
C8_Witness ==
    /\ nupdates >= 2
    /\ nframes >= 2
    /\ time_ = nupdates * dt
    /\ \A k \in 1..Len(stars_) : stars_[k].phase # Star_update(stars_[k]).phase
    /\ \A k \in 1..Len(particles_) :
          particles_[k].angle # Particle_update(particles_[k]).angle

\* ------------------------------------------------------------------- C9
\* C9: render and update alternate, render first: the k-th frame shows the
\* state after k-1 updates, at simulation time (k-1) * dt; below the cut
\* of the loop the next render and the next update always come.
C9_Alternation ==
    /\ [](/\ pc \in {"render", "update"}
          /\ pc = "render" => nframes = nupdates
          /\ pc = "update" => nframes = nupdates + 1
          /\ time_ = nupdates * dt)
    /\ [][ /\ pc = "render" => pc' = "update" /\ nframes' = nframes + 1
           /\ pc = "update" => pc' = "render" /\ nupdates' = nupdates + 1
         ]_vars
    /\ \A k \in 0..(MaxFrames - 1) :
          (pc = "render" /\ nframes = k)
              ~> (pc = "render" /\ nframes = k + 1 /\ nupdates = k + 1)

\* The third frame is on cout, after two updates.
C9_Witness == pc = "update" /\ nframes = 3 /\ nupdates = 2 /\ time_ = 2 * dt

\* ------------------------------------------------------------------ C10
\* The cell (row, column, from 0) render gives a position, by truncation,
\* or <<-1, -1>> when render drops it.
TruncCell(pos) ==
    IF /\ Trunc(pos.x) >= 0 /\ Trunc(pos.x) < width_
       /\ Trunc(pos.y) >= 0 /\ Trunc(pos.y) < height_
    THEN <<Trunc(pos.y), Trunc(pos.x)>>
    ELSE <<-1, -1>>

\* C10: every particle is brighter than 1/3, and every cell of the grid
\* onto which a particle projects shows a glyph other than ' '.
C10_NeverBlank ==
    /\ \A k \in 1..Len(particles_) : 3 * particles_[k].brightness > SCALE
    /\ Rendered =>
          LET L == FrameLines
          IN \A k \in 1..Len(particles_) :
                LET c == TruncCell(get_position(particles_[k], center_, aspect_ratio_))
                IN c # <<-1, -1>> => L[c[1] + 1][c[2] + 1] # " "

\* A frame where a particle alone on its cell, away from the core, covers
\* the glyph of a star.
C10_Witness ==
    /\ Rendered
    /\ \E k \in 1..Len(particles_) :
          LET c == TruncCell(get_position(particles_[k], center_, aspect_ratio_))
          IN /\ c # <<-1, -1>>
             /\ ~CoreCell(c[1] + 1, c[2] + 1)
             /\ CodeIntensity[c[1] + 1][c[2] + 1] = particles_[k].brightness
             /\ StarPass[c[1] + 1][c[2] + 1] # " "

====
